---- MODULE Spec2Model ----
(***************************************************************************)
(* A model of thetagang's PortfolioManager (thetagang/portfolio_manager.py):*)
(* the roll evaluator, the allocation arithmetic, the contract selector    *)
(* and the manage cycle that drives them.                                  *)
(*                                                                         *)
(* Units.  Fractions of the source are scaled to integers: a delta, a      *)
(* weight and the cushion are in tenths (2 stands for 0.2), a P&L in       *)
(* tenths of the cost basis.  Days to expiration, strikes, prices, open    *)
(* interest and account values are integers.  A value that may be missing *)
(* (a float that may be "not a number", an attribute that may be None) is  *)
(* a set of at most one number: {} is NaN or None, {v} is the number v.     *)
(* A comparison with NaN is false in Python; here no element satisfies it. *)
(***************************************************************************)
EXTENDS Integers, Sequences, FiniteSets, TLC

VARIABLES
    config,               \* self.config
    evaluated,            \* the last roll evaluation: its inputs and its result
    allocation,           \* the last allocation computation: inputs and result
    sel,                  \* the frame of find_eligible_contracts
    pc,                   \* the position of manage
    caller_positions,     \* the dict the caller passed to manage
    caller_original,      \* that dict as it was when manage was called
    portfolio_positions,  \* manage's local variable portfolio_positions
    snapshot_orders,      \* the number of orders placed when it was fetched
    work,                 \* the positions or symbols a step still has to process
    steps,                \* the steps of manage begun so far, in order
    orders,               \* the orders placed through ib.placeOrder, in order
    failures,             \* the symbols whose action raised in this cycle
    completion            \* completion_future has a result

vars == <<config, evaluated, allocation, sel, pc, caller_positions,
          caller_original, portfolio_positions, snapshot_orders, work, steps,
          orders, failures, completion>>

NaN == {}
None == {}
Number(v) == {v}
Value(x) == CHOOSE v \in x : TRUE
Numbers(S) == {{v} : v \in S}

\* ------------------------------------------------------------------ bounds
MaxDte == 3
MaxPnl == 2
MaxStrike == 3
MaxWeight == 3
MaxPrice == 2
MaxWaits == 2
MaxOpenInterest == 1
MaxDelta == 4
MaxSymbols == 2

SharesPerContract == 100

\* ------------------------------------------------------------------ helpers
Abs(x) == IF x < 0 THEN -x ELSE x

Min(a, b) == IF a <= b THEN a ELSE b

\* Python's math.floor(a / b) for b > 0
FloorDiv(a, b) == a \div b

RECURSIVE SumSeq(_)
SumSeq(s) == IF s = <<>> THEN 0 ELSE Head(s) + SumSeq(Tail(s))

RECURSIVE Concat(_)
Concat(ss) == IF ss = <<>> THEN <<>> ELSE Head(ss) \o Concat(Tail(ss))

Range(s) == {s[i] : i \in 1..Len(s)}

\* Python's sorted(s, key=...), which is stable: keys[i] is the key of s[i]
Sorted(s, keys) ==
    LET n == Len(s)
        rank(i) == 1 + Cardinality({j \in 1..n :
                        keys[j] < keys[i] \/ (keys[j] = keys[i] /\ j < i)})
    IN  [p \in 1..n |-> s[CHOOSE i \in 1..n : rank(i) = p]]

\* Python's reversed(s)
Reversed(s) == [i \in 1..Len(s) |-> s[Len(s) + 1 - i]]

\* ------------------------------------------------------------------ config
BaseConfig ==
    [roll_when |-> [dte |-> 1, pnl |-> 1],
     target |-> [dte |-> 2, delta |-> 3, minimum_open_interest |-> 1],
     option_chains |-> [expirations |-> 2, strikes |-> 2],
     account |-> [minimum_cushion |-> 1],
     symbols |-> [s \in {"A", "B"} |-> [weight |-> 2]]]

\* ------------------------------------------------------------------ roll evaluator
\* ticker.marketPrice() is NaN when the gateway has no price; a comparison
\* with NaN is false
put_is_itm_strict(contract, marketPrice) ==
    \E price \in marketPrice : contract.strike > price

put_is_itm(contract, marketPrice) ==
    \E price \in marketPrice : contract.strike >= price

put_can_be_rolled(put, marketPrice) ==
    IF put_is_itm(put, marketPrice) THEN FALSE
    ELSE IF put.dte <= config.roll_when.dte THEN TRUE
    ELSE IF put.pnl >= config.roll_when.pnl THEN TRUE
    ELSE FALSE

call_can_be_rolled_strict(call) ==
    IF call.dte < config.roll_when.dte THEN TRUE
    ELSE IF call.pnl >= config.roll_when.pnl THEN TRUE
    ELSE FALSE

call_can_be_rolled(call) ==
    IF call.dte <= config.roll_when.dte THEN TRUE
    ELSE IF call.pnl >= config.roll_when.pnl THEN TRUE
    ELSE FALSE

\* ------------------------------------------------------------------ positions
\* A position of the portfolio.  kind is "STK" for a Stock contract, "P" or
\* "C" for an Option contract of that right; dte and pnl are what option_dte
\* and position_pnl give for it.
StockPosition(symbol, quantity, value) ==
    [kind |-> "STK", symbol |-> symbol, position |-> quantity,
     marketValue |-> value, strike |-> 0, dte |-> 0, pnl |-> 0]

OptionPosition(symbol, right, quantity, strike, dte, pnl) ==
    [kind |-> right, symbol |-> symbol, position |-> quantity,
     marketValue |-> 0, strike |-> strike, dte |-> dte, pnl |-> pnl]

\* A portfolio snapshot is a Python dict, which keeps insertion order: a
\* sequence of entries [symbol, positions] with distinct symbols.
Keys(positions) == [i \in 1..Len(positions) |-> positions[i].symbol]

HasKey(positions, symbol) == \E i \in 1..Len(positions) : positions[i].symbol = symbol

Lookup(positions, symbol) ==
    positions[CHOOSE i \in 1..Len(positions) : positions[i].symbol = symbol].positions

get_options(positions, right) ==
    Concat([i \in 1..Len(positions) |->
              SelectSeq(positions[i].positions, LAMBDA p : p.kind = right)])

get_puts(positions) == get_options(positions, "P")

get_calls(positions) == get_options(positions, "C")

\* thetagang.util.count_option_positions (not part of portfolio_manager.py):
\* the option contracts of this right open for the symbol.  Written
\* positions are negative quantities, counted positively.
count_option_positions(symbol, positions, right) ==
    IF HasKey(positions, symbol)
    THEN -SumSeq([i \in 1..Len(SelectSeq(Lookup(positions, symbol),
                                           LAMBDA p : p.kind = right)) |->
                    SelectSeq(Lookup(positions, symbol),
                              LAMBDA p : p.kind = right)[i].position])
    ELSE 0

\* ------------------------------------------------------------------ allocation
\* The locals of check_if_can_write_puts
stocks_of(positions) ==
    Concat([i \in 1..Len(positions) |->
              SelectSeq(positions[i].positions, LAMBDA p : p.kind = "STK")])

remaining_buying_power(account_summary) ==
    Min(account_summary.BuyingPower,
        FloorDiv(account_summary.ExcessLiquidity * 10
                   - account_summary.NetLiquidation * config.account.minimum_cushion,
                 10))

total_value(account_summary, positions) ==
    LET stocks == stocks_of(positions)
    IN  SumSeq([i \in 1..Len(stocks) |-> stocks[i].marketValue * stocks[i].position])
          + remaining_buying_power(account_summary)

\* stock_symbols[symbol]: the last stock position of the symbol
in_stock_symbols(positions, symbol) ==
    \E i \in 1..Len(stocks_of(positions)) : stocks_of(positions)[i].symbol = symbol

stock_symbols(positions, symbol) ==
    LET stocks == stocks_of(positions)
        last == CHOOSE i \in 1..Len(stocks) :
                    /\ stocks[i].symbol = symbol
                    /\ \A j \in (i + 1)..Len(stocks) : stocks[j].symbol # symbol
    IN  stocks[last]

target_additional_quantity_swapped(account_summary, positions, symbol, weight, marketPrice) ==
    LET target == weight * total_value(account_summary, positions)
        quantity == FloorDiv(target, 10 * marketPrice)
    IN  IF in_stock_symbols(positions, symbol)
        THEN stock_symbols(positions, symbol).position - quantity
        ELSE quantity

target_additional_quantity(account_summary, positions, symbol, weight, marketPrice) ==
    LET target == weight * total_value(account_summary, positions)
        quantity == FloorDiv(target, 10 * marketPrice)
    IN  IF in_stock_symbols(positions, symbol)
        THEN quantity - stock_symbols(positions, symbol).position
        ELSE quantity

\* The puts check_if_can_write_puts writes for the symbol (0: none)
puts_to_write(account_summary, positions, symbol, marketPrice) ==
    LET put_count == count_option_positions(symbol, positions, "P")
        target_put_count ==
            target_additional_quantity(account_summary, positions, symbol,
                                       config.symbols[symbol].weight, marketPrice)
              \div SharesPerContract
    IN  IF put_count < target_put_count THEN target_put_count - put_count ELSE 0

\* ------------------------------------------------------------------ contract selector
\* sorted(S) of a set of numbers
SortedSet(S) ==
    [i \in 1..Cardinality(S) |-> CHOOSE x \in S : Cardinality({y \in S : y < x}) = i - 1]

\* Python's s[:n] and s[-n:] for n >= 0; s[-0:] is s[0:], the whole list
FirstN(s, n) == SubSeq(s, 1, Min(n, Len(s)))

LastN(s, n) == IF n = 0 THEN s ELSE SubSeq(s, Len(s) - Min(n, Len(s)) + 1, Len(s))

valid_strike(right, strike, tickerValue) ==
    IF right = "P" THEN \E price \in tickerValue : strike <= price
    ELSE IF right = "C" THEN \E price \in tickerValue : strike >= price
    ELSE FALSE

nearest_strikes(right, strikes) ==
    IF right = "P" THEN LastN(strikes, config.option_chains.strikes)
    ELSE FirstN(strikes, config.option_chains.strikes)

\* An expiration is named by its days to expiration: sorting the date
\* strings sorts by option_dte
valid_expirations(chain) ==
    FirstN(SortedSet({exp \in chain.expirations : exp >= config.target.dte}),
           config.option_chains.expirations)

\* contracts: one Option per expiration and strike, expirations outermost
option_contracts(expirations, strikes) ==
    [k \in 1..(Len(expirations) * Len(strikes)) |->
        [dte |-> expirations[((k - 1) \div Len(strikes)) + 1],
         strike |-> strikes[((k - 1) % Len(strikes)) + 1]]]

delta_is_valid_signed(ticker) ==
    \E delta \in ticker.delta : delta # 0 /\ delta <= config.target.delta

\* modelGreeks or its delta missing is None; a delta of 0.0 is falsy
delta_is_valid(ticker) ==
    \E delta \in ticker.delta : delta # 0 /\ Abs(delta) <= config.target.delta

\* The wait loop of open_interest_is_valid goes on while this holds
open_interest_is_missing(live) ==
    live.putOpenInterest = NaN \/ live.callOpenInterest = NaN

\* The value open_interest_is_valid returns once the loop has ended
open_interest_passes(right, live) ==
    IF right = "P"
    THEN \E oi \in live.putOpenInterest : oi >= config.target.minimum_open_interest
    ELSE IF right = "C"
    THEN \E oi \in live.callOpenInterest : oi >= config.target.minimum_open_interest
    ELSE FALSE

ranked_by_delta_only(tickers) ==
    Reversed(Sorted(tickers, [i \in 1..Len(tickers) |-> Abs(Value(tickers[i].delta))]))

\* sorted(reversed(sorted(tickers, key=|delta|)), key=dte)
ranked(tickers) ==
    LET by_delta == Reversed(Sorted(tickers,
                        [i \in 1..Len(tickers) |-> Abs(Value(tickers[i].delta))]))
    IN  Sorted(by_delta, [i \in 1..Len(by_delta) |-> by_delta[i].dte])

selection_outcome_placeholder(tickers) ==
    IF Len(tickers) = 0
    THEN [pc |-> "returned", result |-> None]
    ELSE [pc |-> "returned", result |-> {tickers[1]}]

\* The end of find_eligible_contracts: raise RuntimeError or return tickers[0]
selection_outcome(tickers) ==
    IF Len(tickers) = 0
    THEN [pc |-> "raised", result |-> None]
    ELSE [pc |-> "returned", result |-> {tickers[1]}]

IdleSelection ==
    [pc |-> "idle", caller |-> "none", symbol |-> "none", right |-> "none",
     stages |-> <<>>, tickers |-> <<>>, idx |-> 0, waits |-> 0,
     live |-> [putOpenInterest |-> NaN, callOpenInterest |-> NaN],
     kept |-> <<>>, result |-> None]

\* The selector after the open-interest filter has dealt with ticker idx:
\* the next ticker, or the ranking and the end of the function
AfterOpenInterest(frame, kept) ==
    IF frame.idx < Len(frame.tickers)
    THEN [frame EXCEPT !.pc = "oi_request", !.idx = frame.idx + 1,
                       !.waits = 0, !.live = IdleSelection.live, !.kept = kept]
    ELSE [frame EXCEPT !.pc = selection_outcome(ranked(kept)).pc,
                       !.result = selection_outcome(ranked(kept)).result,
                       !.idx = 0, !.waits = 0, !.live = IdleSelection.live,
                       !.kept = kept]

\* The contracts find_eligible_contracts builds from the chain (lines
\* 325-361), with the sizes of the stages that lead to them
selection_contracts(right, tickerValue, chain) ==
    LET valid == SortedSet({strike \in chain.strikes :
                               valid_strike(right, strike, tickerValue)})
        expirations == valid_expirations(chain)
        strikes == nearest_strikes(right, valid)
    IN  [contracts |-> option_contracts(expirations, strikes),
         stages |-> <<Len(valid), Len(expirations), Len(strikes)>>]

\* find_eligible_contracts up to the open-interest filter (lines 313-398).
\* The gateway supplies the underlying's price, the chain and a quote
\* (model delta) for each contract.
SelectionStart(caller, symbol, right, tickerValue, chain, deltas) ==
    LET built == selection_contracts(right, tickerValue, chain)
        contracts == built.contracts
        quoted == [k \in 1..Len(contracts) |->
                     [dte |-> contracts[k].dte, strike |-> contracts[k].strike,
                      delta |-> deltas[k],
                      putOpenInterest |-> NaN, callOpenInterest |-> NaN]]
        tickers == SelectSeq(quoted, delta_is_valid)
        frame == [pc |-> "oi_request", caller |-> caller, symbol |-> symbol,
                  right |-> right,
                  stages |-> built.stages \o <<Len(contracts), Len(tickers)>>,
                  tickers |-> tickers, idx |-> 0, waits |-> 0,
                  live |-> IdleSelection.live, kept |-> <<>>, result |-> None]
    IN  AfterOpenInterest(frame, <<>>)

\* find_eligible_contracts is called: the gateway's data is drawn from the
\* given sets
find_eligible_contracts(caller, symbol, right, TickerValues, Chains, Deltas) ==
    \E tickerValue \in TickerValues, chain \in Chains :
        \E deltas \in [1..Len(selection_contracts(right, tickerValue, chain).contracts)
                          -> Deltas] :
            sel' = SelectionStart(caller, symbol, right, tickerValue, chain, deltas)

\* open_interest_is_valid, line 368: reqMktData gives the live ticker
ReqMktData(OpenInterests) ==
    /\ sel.pc = "oi_request"
    /\ \E put \in OpenInterests, call \in OpenInterests :
          sel' = [sel EXCEPT !.pc = "oi_wait",
                             !.waits = 0,
                             !.live = [putOpenInterest |-> put,
                                       callOpenInterest |-> call]]

\* lines 370-373: one turn of the wait loop; the gateway may have filled in
\* either field when waitOnUpdate returns.  waits counts the turns taken in
\* a row with a field still missing, up to MaxWaits.
WaitOnUpdate(OpenInterests) ==
    /\ sel.pc = "oi_wait"
    /\ open_interest_is_missing(sel.live)
    /\ \E put \in OpenInterests, call \in OpenInterests :
          /\ sel.live.putOpenInterest # NaN => put = sel.live.putOpenInterest
          /\ sel.live.callOpenInterest # NaN => call = sel.live.callOpenInterest
          /\ sel' = [sel EXCEPT !.waits = IF put = NaN \/ call = NaN
                                          THEN Min(sel.waits + 1, MaxWaits)
                                          ELSE 0,
                                 !.live = [putOpenInterest |-> put,
                                           callOpenInterest |-> call]]

\* lines 375-388 and, after the last ticker, lines 400-408
CancelMktData ==
    /\ sel.pc = "oi_wait"
    /\ ~open_interest_is_missing(sel.live)
    /\ LET ticker == [sel.tickers[sel.idx] EXCEPT
                         !.putOpenInterest = sel.live.putOpenInterest,
                         !.callOpenInterest = sel.live.callOpenInterest]
           kept == IF open_interest_passes(sel.right, sel.live)
                   THEN Append(sel.kept, ticker)
                   ELSE sel.kept
       IN  sel' = AfterOpenInterest(sel, kept)

\* ------------------------------------------------------------------ manage
\* filter_positions, lines 90-95.  keys is a live view of the dict: the
\* iterator raises RuntimeError ("dictionary changed size during
\* iteration") at the first step after a deletion.  i is the iterator's
\* position, used the size the dict had when the iteration began.
RECURSIVE filter_positions_from(_, _, _)
filter_positions_from(positions, i, used) ==
    IF Len(positions) # used THEN [positions |-> positions, raised |-> TRUE]
    ELSE IF i > Len(positions) THEN [positions |-> positions, raised |-> FALSE]
    ELSE IF positions[i].symbol \notin DOMAIN config.symbols
    THEN filter_positions_from(
             SubSeq(positions, 1, i - 1) \o SubSeq(positions, i + 1, Len(positions)),
             i, used)
    ELSE filter_positions_from(positions, i + 1, used)

filter_positions(positions) == filter_positions_from(positions, 1, Len(positions))

\* config["symbols"].keys(), in the dict's order
ConfiguredSymbols == <<"A", "B">>

\* rollable_puts and rollable_calls as roll_positions uses them
RollItems(positions) ==
    [i \in 1..Len(positions) |->
        [symbol |-> positions[i].symbol, quantity |-> Abs(positions[i].position)]]

\* check_for_uncovered_positions, lines 142-156, for one symbol
calls_to_write(positions, symbol) ==
    LET call_count == count_option_positions(symbol, positions, "C")
        held == SelectSeq(Lookup(positions, symbol), LAMBDA p : p.kind = "STK")
        stock_count == SumSeq([i \in 1..Len(held) |-> held[i].position])
        target_calls == stock_count \div SharesPerContract
    IN  target_calls - call_count

StepRight(step) == IF step \in {"roll_puts", "write_puts"} THEN "P" ELSE "C"

LoopSteps == {"roll_puts", "roll_calls", "write_calls", "write_puts"}

\* What the gateway answers during a manage cycle
ManagePrices == {1, 3}
ManageChains == {[strikes |-> {1, 3}, expirations |-> {2}]}
ManageDeltas == {None, Number(1)}
\* An open interest is not there yet, none at all, or MaxOpenInterest
OpenInterests == {NaN} \cup Numbers({0, MaxOpenInterest})
Accounts ==
    [BuyingPower : {1000}, ExcessLiquidity : {100, 2000}, NetLiquidation : {1500}]

\* line 102
FilterPositions ==
    /\ pc = "start"
    /\ LET r == filter_positions(caller_positions)
       IN  /\ caller_positions' = r.positions
           /\ portfolio_positions' = r.positions
           /\ pc' = IF r.raised THEN "raised" ELSE "check_puts"
    /\ steps' = Append(steps, "filter_positions")
    /\ UNCHANGED <<config, evaluated, allocation, sel, caller_original,
                   snapshot_orders, work, orders, failures, completion>>

\* check_puts, lines 119-126
CheckPuts ==
    /\ pc = "check_puts"
    /\ \E price \in [DOMAIN config.symbols -> Numbers(ManagePrices) \cup {NaN}] :
          work' = RollItems(SelectSeq(get_puts(portfolio_positions),
                              LAMBDA p : put_can_be_rolled(p, price[p.symbol])))
    /\ pc' = "roll_puts"
    /\ steps' = Append(steps, "check_puts")
    /\ UNCHANGED <<config, evaluated, allocation, sel, caller_positions,
                   caller_original, portfolio_positions, snapshot_orders, orders,
                   failures, completion>>

\* check_calls, lines 130-137, once roll_puts has returned
CheckCalls ==
    /\ pc = "roll_puts" /\ work = <<>> /\ sel.pc = "idle"
    /\ work' = RollItems(SelectSeq(get_calls(portfolio_positions), call_can_be_rolled))
    /\ pc' = "roll_calls"
    /\ steps' = Append(steps, "check_calls")
    /\ UNCHANGED <<config, evaluated, allocation, sel, caller_positions,
                   caller_original, portfolio_positions, snapshot_orders, orders,
                   failures, completion>>

\* check_for_uncovered_positions, lines 141-160, once roll_calls has returned
CheckForUncoveredPositions ==
    /\ pc = "roll_calls" /\ work = <<>> /\ sel.pc = "idle"
    /\ LET uncovered == SelectSeq(Keys(portfolio_positions),
                            LAMBDA symbol : calls_to_write(portfolio_positions, symbol) > 0)
       IN  work' = [i \in 1..Len(uncovered) |->
                      [symbol |-> uncovered[i],
                       quantity |-> calls_to_write(portfolio_positions, uncovered[i])]]
    /\ pc' = "write_calls"
    /\ steps' = Append(steps, "check_for_uncovered_positions")
    /\ UNCHANGED <<config, evaluated, allocation, sel, caller_positions,
                   caller_original, portfolio_positions, snapshot_orders, orders,
                   failures, completion>>

RefreshPositionsSkipped ==
    /\ pc = "write_calls" /\ work = <<>> /\ sel.pc = "idle"
    /\ pc' = "refreshed"
    /\ steps' = Append(steps, "portfolio")
    /\ UNCHANGED <<config, evaluated, allocation, sel, caller_positions,
                   caller_original, portfolio_positions, snapshot_orders, work,
                   orders, failures, completion>>

\* line 111: the gateway's portfolio is fetched anew.  The orders of this
\* cycle are limit orders still working, so it holds what the account held
\* when the cycle began, every symbol included.
RefreshPositions ==
    /\ pc = "write_calls" /\ work = <<>> /\ sel.pc = "idle"
    /\ portfolio_positions' = caller_original
    /\ snapshot_orders' = Len(orders)
    /\ pc' = "refreshed"
    /\ steps' = Append(steps, "portfolio")
    /\ UNCHANGED <<config, evaluated, allocation, sel, caller_positions,
                   caller_original, work, orders, failures, completion>>

\* check_if_can_write_puts, lines 198-251: the puts to write, per symbol
CheckIfCanWritePuts ==
    /\ pc = "refreshed"
    /\ \E account_summary \in Accounts,
          price \in [DOMAIN config.symbols -> ManagePrices] :
          LET needed == SelectSeq(ConfiguredSymbols,
                          LAMBDA symbol : puts_to_write(account_summary,
                              portfolio_positions, symbol, price[symbol]) > 0)
          IN  work' = [i \in 1..Len(needed) |->
                         [symbol |-> needed[i],
                          quantity |-> puts_to_write(account_summary,
                              portfolio_positions, needed[i], price[needed[i]])]]
    /\ pc' = "write_puts"
    /\ steps' = Append(steps, "check_if_can_write_puts")
    /\ UNCHANGED <<config, evaluated, allocation, sel, caller_positions,
                   caller_original, portfolio_positions, snapshot_orders, orders,
                   failures, completion>>

\* lines 163, 181 and 265: the selector is called for the next item
CallSelector ==
    /\ pc \in LoopSteps /\ work # <<>> /\ sel.pc = "idle"
    /\ find_eligible_contracts(pc, Head(work).symbol, StepRight(pc),
                               {Number(2)}, ManageChains, ManageDeltas)
    /\ UNCHANGED <<config, evaluated, allocation, pc, caller_positions,
                   caller_original, portfolio_positions, snapshot_orders, work,
                   steps, orders, failures, completion>>

\* lines 176, 194 and 309: the selector returned, the order is placed
PlaceOrder ==
    /\ pc \in LoopSteps /\ sel.pc = "returned"
    /\ orders' = Append(orders, [step |-> pc, symbol |-> Head(work).symbol,
                                 quantity |-> Head(work).quantity,
                                 after |-> steps[Len(steps)],
                                 contract |-> Value(sel.result)])
    /\ work' = Tail(work)
    /\ sel' = IdleSelection
    /\ UNCHANGED <<config, evaluated, allocation, pc, caller_positions,
                   caller_original, portfolio_positions, snapshot_orders, steps,
                   failures, completion>>

\* The selector raised RuntimeError: no caller up to manage catches it
SelectorRaises ==
    /\ pc \in LoopSteps /\ sel.pc = "raised"
    /\ failures' = failures \cup {[step |-> pc, symbol |-> Head(work).symbol]}
    /\ pc' = "raised"
    /\ sel' = IdleSelection
    /\ UNCHANGED <<config, evaluated, allocation, caller_positions,
                   caller_original, portfolio_positions, snapshot_orders, work,
                   steps, orders, completion>>

\* line 117
SetResult ==
    /\ pc = "write_puts" /\ work = <<>> /\ sel.pc = "idle"
    /\ completion' = TRUE
    /\ pc' = "done"
    /\ steps' = Append(steps, "set_result")
    /\ UNCHANGED <<config, evaluated, allocation, sel, caller_positions,
                   caller_original, portfolio_positions, snapshot_orders, work,
                   orders, failures>>

\* The selector's steps while manage waits for it
ManageReqMktData ==
    /\ ReqMktData(OpenInterests)
    /\ UNCHANGED <<config, evaluated, allocation, pc, caller_positions,
                   caller_original, portfolio_positions, snapshot_orders, work,
                   steps, orders, failures, completion>>

ManageWaitOnUpdate ==
    /\ WaitOnUpdate(OpenInterests)
    /\ UNCHANGED <<config, evaluated, allocation, pc, caller_positions,
                   caller_original, portfolio_positions, snapshot_orders, work,
                   steps, orders, failures, completion>>

ManageCancelMktData ==
    /\ CancelMktData
    /\ UNCHANGED <<config, evaluated, allocation, pc, caller_positions,
                   caller_original, portfolio_positions, snapshot_orders, work,
                   steps, orders, failures, completion>>

\* The holdings of one symbol in a snapshot
Holdings(symbol) ==
    {<<StockPosition(symbol, 100, 5)>>,
     <<OptionPosition(symbol, "P", -1, 2, 1, 0)>>,
     <<StockPosition(symbol, 100, 5), OptionPosition(symbol, "C", -1, 3, 1, 0)>>,
     <<StockPosition(symbol, 200, 5), OptionPosition(symbol, "C", -1, 3, MaxDte, 0)>>}

Entries(Symbols) ==
    UNION {[symbol : {symbol}, positions : Holdings(symbol)] : symbol \in Symbols}

\* The snapshots of at most n symbols
Snapshots(Symbols, n) ==
    UNION {{d \in [1..k -> Entries(Symbols)] :
               \A i, j \in 1..k : i # j => d[i].symbol # d[j].symbol} : k \in 0..n}

NoEvaluation == [op |-> "none"]

NoAllocation == [op |-> "none"]

Init ==
    /\ config = BaseConfig
    /\ evaluated = NoEvaluation
    /\ allocation = NoAllocation
    /\ sel = IdleSelection
    /\ pc = "start"
    /\ caller_positions \in Snapshots({"A", "B", "X"}, MaxSymbols)
    /\ caller_original = caller_positions
    /\ portfolio_positions = caller_positions
    /\ snapshot_orders = 0
    /\ work = <<>>
    /\ steps = <<>>
    /\ orders = <<>>
    /\ failures = {}
    /\ completion = FALSE

Next ==
    \/ FilterPositions
    \/ CheckPuts
    \/ CheckCalls
    \/ CheckForUncoveredPositions
    \/ RefreshPositions
    \/ CheckIfCanWritePuts
    \/ CallSelector
    \/ ManageReqMktData
    \/ ManageWaitOnUpdate
    \/ ManageCancelMktData
    \/ PlaceOrder
    \/ SelectorRaises
    \/ SetResult

Spec == Init /\ [][Next]_vars

\* ------------------------------------------------------------------ the roll evaluator alone
\* The variables of manage while a single function is exercised
ManageIdle ==
    /\ pc = "none"
    /\ caller_positions = <<>>
    /\ caller_original = <<>>
    /\ portfolio_positions = <<>>
    /\ snapshot_orders = 0
    /\ work = <<>>
    /\ steps = <<>>
    /\ orders = <<>>
    /\ failures = {}
    /\ completion = FALSE

manage_vars == <<pc, caller_positions, caller_original, portfolio_positions,
                 snapshot_orders, work, steps, orders, failures, completion>>

InitRoll ==
    /\ config \in {[BaseConfig EXCEPT !.roll_when = [dte |-> d, pnl |-> p]] :
                      d \in 0..MaxDte, p \in 0..MaxPnl}
    /\ evaluated = NoEvaluation
    /\ allocation = NoAllocation
    /\ sel = IdleSelection
    /\ ManageIdle

\* put_can_be_rolled(put) with the price the gateway quotes for the underlying
EvaluatePut ==
    /\ evaluated = NoEvaluation
    /\ \E strike \in 1..MaxStrike, dte \in 0..MaxDte, pnl \in -1..MaxPnl,
          marketPrice \in Numbers(1..MaxStrike) \cup {NaN} :
          LET put == OptionPosition("A", "P", -1, strike, dte, pnl)
          IN  evaluated' = [op |-> "put_can_be_rolled", position |-> put,
                            marketPrice |-> marketPrice,
                            result |-> put_can_be_rolled(put, marketPrice)]
    /\ UNCHANGED <<config, allocation, sel, manage_vars>>

\* call_can_be_rolled(call); the underlying's price is not asked for
EvaluateCall ==
    /\ evaluated = NoEvaluation
    /\ \E strike \in 1..MaxStrike, dte \in 0..MaxDte, pnl \in -1..MaxPnl,
          marketPrice \in Numbers(1..MaxStrike) \cup {NaN} :
          LET call == OptionPosition("A", "C", -1, strike, dte, pnl)
          IN  evaluated' = [op |-> "call_can_be_rolled", position |-> call,
                            marketPrice |-> marketPrice,
                            result |-> call_can_be_rolled(call)]
    /\ UNCHANGED <<config, allocation, sel, manage_vars>>

NextRoll == EvaluatePut \/ EvaluateCall

SpecRoll == InitRoll /\ [][NextRoll]_vars

\* ------------------------------------------------------------------ the allocation alone
InitAlloc ==
    /\ config \in {[BaseConfig EXCEPT !.symbols =
                        [s \in {"A", "B"} |-> [weight |-> w[s]]]] :
                      w \in [{"A", "B"} -> 0..MaxWeight]}
    /\ evaluated = NoEvaluation
    /\ allocation = NoAllocation
    /\ sel = IdleSelection
    /\ ManageIdle

\* check_if_can_write_puts up to line 245
ComputeAllocation ==
    /\ allocation = NoAllocation
    /\ \E account_summary \in Accounts,
          positions \in Snapshots({"A", "B", "X"}, MaxSymbols),
          price \in [DOMAIN config.symbols -> 1..MaxPrice] :
          allocation' =
              [op |-> "check_if_can_write_puts",
               account_summary |-> account_summary,
               portfolio_positions |-> positions,
               price |-> price,
               total_value |-> total_value(account_summary, positions),
               target_additional_quantity |->
                   [s \in DOMAIN config.symbols |->
                       target_additional_quantity(account_summary, positions, s,
                           config.symbols[s].weight, price[s])]]
    /\ UNCHANGED <<config, evaluated, sel, manage_vars>>

NextAlloc == ComputeAllocation

SpecAlloc == InitAlloc /\ [][NextAlloc]_vars

\* ------------------------------------------------------------------ the selector alone
Chains == [strikes : SUBSET (1..MaxStrike), expirations : SUBSET (1..MaxDte)]

\* A quote has no model delta, or one around target.delta
Deltas ==
    {None} \cup Numbers({0, 1, -2, BaseConfig.target.delta, MaxDelta, -MaxDelta})


InitSelect ==
    /\ config \in {[BaseConfig EXCEPT !.option_chains =
                        [expirations |-> e, strikes |-> k]] :
                      e \in {1, 2}, k \in {0, 1, 2}}
    /\ evaluated = NoEvaluation
    /\ allocation = NoAllocation
    /\ sel = IdleSelection
    /\ ManageIdle

SelectCall ==
    /\ sel.pc = "idle"
    /\ \E right \in {"P", "C"} :
          find_eligible_contracts("none", "A", right, {Number(2), NaN}, Chains, Deltas)
    /\ UNCHANGED <<config, evaluated, allocation, manage_vars>>

SelectReqMktData ==
    /\ ReqMktData(OpenInterests)
    /\ UNCHANGED <<config, evaluated, allocation, manage_vars>>

SelectWaitOnUpdate ==
    /\ WaitOnUpdate(OpenInterests)
    /\ UNCHANGED <<config, evaluated, allocation, manage_vars>>

SelectCancelMktData ==
    /\ CancelMktData
    /\ UNCHANGED <<config, evaluated, allocation, manage_vars>>

NextSelect ==
    \/ SelectCall
    \/ SelectReqMktData
    \/ SelectWaitOnUpdate
    \/ SelectCancelMktData

SpecSelect == InitSelect /\ [][NextSelect]_vars

\* ------------------------------------------------------------------ properties
\* C1: put_can_be_rolled is false for every put whose underlying's price is
\* at or below the strike, whatever its days to expiration and its P&L.
C1_ItmPutNeverRolled ==
    (/\ evaluated.op = "put_can_be_rolled"
     /\ \E price \in evaluated.marketPrice : price <= evaluated.position.strike)
        => evaluated.result = FALSE

\* A put at the money, expiring today, with a P&L above roll_when.pnl, evaluated
C1_Witness ==
    /\ evaluated.op = "put_can_be_rolled"
    /\ evaluated.marketPrice = Number(evaluated.position.strike)
    /\ evaluated.position.dte = 0
    /\ evaluated.position.pnl > config.roll_when.pnl
    /\ evaluated.result = FALSE

\* C2: for an out-of-the-money put and for any call the evaluator answers
\* true exactly when dte <= roll_when.dte or pnl >= roll_when.pnl.
C2_EitherThresholdSuffices ==
    (\/ evaluated.op = "call_can_be_rolled"
     \/ /\ evaluated.op = "put_can_be_rolled"
        /\ \E price \in evaluated.marketPrice : price > evaluated.position.strike)
        => (evaluated.result <=>
               (\/ evaluated.position.dte <= config.roll_when.dte
                \/ evaluated.position.pnl >= config.roll_when.pnl))

\* An in-the-money call at exactly roll_when.dte with a P&L below the threshold
C2_Witness ==
    /\ evaluated.op = "call_can_be_rolled"
    /\ \E price \in evaluated.marketPrice : price > evaluated.position.strike
    /\ evaluated.position.dte = config.roll_when.dte
    /\ evaluated.position.pnl < config.roll_when.pnl
    /\ evaluated.result = TRUE

C4_SoonestThenLargestDelta ==
    sel.pc = "returned" =>
        \A chosen \in sel.result :
            /\ chosen \in Range(sel.kept)
            /\ \A ticker \in Range(sel.kept) :
                  /\ chosen.dte <= ticker.dte
                  /\ ticker.dte = chosen.dte =>
                        Abs(Value(chosen.delta)) >= Abs(Value(ticker.delta))

\* The returned contract beat a later survivor of greater delta magnitude
\* and a survivor of its own expiration of smaller delta magnitude
C4_Witness ==
    /\ sel.pc = "returned"
    /\ \E chosen \in sel.result :
          /\ \E ticker \in Range(sel.kept) :
                /\ ticker.dte > chosen.dte
                /\ Abs(Value(ticker.delta)) > Abs(Value(chosen.delta))
          /\ \E ticker \in Range(sel.kept) :
                /\ ticker.dte = chosen.dte
                /\ Abs(Value(ticker.delta)) < Abs(Value(chosen.delta))

\* C5: when a stage of the selection leaves no candidate the selector
\* raises; what it returns is never a missing value.
C5_EmptyRaises ==
    /\ sel.pc = "returned" => sel.result # None
    /\ (/\ sel.pc \in {"returned", "raised"}
        /\ \/ \E i \in 1..5 : sel.stages[i] = 0
           \/ Len(sel.kept) = 0)
          => sel.pc = "raised"

\* The selector raised after the open-interest filter dropped every
\* candidate the delta filter had left
C5_Witness ==
    /\ sel.pc = "raised"
    /\ sel.stages[5] > 0
    /\ Len(sel.kept) = 0

\* C6, as claimed: a greater weight never gives a smaller
\* target_additional_quantity, for every account summary.
C6_MonotonicInWeight ==
    allocation.op = "check_if_can_write_puts" =>
        \A s \in DOMAIN config.symbols, weight \in 0..MaxWeight :
            weight >= config.symbols[s].weight =>
                target_additional_quantity(allocation.account_summary,
                    allocation.portfolio_positions, s, weight, allocation.price[s])
                  >= allocation.target_additional_quantity[s]

\* C6, amended: a greater weight never gives a smaller
\* target_additional_quantity when total_value is not negative.
C6_MonotonicWhenValueNotNegative ==
    (/\ allocation.op = "check_if_can_write_puts"
     /\ allocation.total_value >= 0) =>
        \A s \in DOMAIN config.symbols, weight \in 0..MaxWeight :
            weight >= config.symbols[s].weight =>
                target_additional_quantity(allocation.account_summary,
                    allocation.portfolio_positions, s, weight, allocation.price[s])
                  >= allocation.target_additional_quantity[s]

\* A symbol with stock held whose target grows with a greater weight
C6_Witness ==
    /\ allocation.op = "check_if_can_write_puts"
    /\ allocation.total_value > 0
    /\ \E s \in DOMAIN config.symbols, weight \in 0..MaxWeight :
          /\ in_stock_symbols(allocation.portfolio_positions, s)
          /\ weight > config.symbols[s].weight
          /\ target_additional_quantity(allocation.account_summary,
                 allocation.portfolio_positions, s, weight, allocation.price[s])
               > allocation.target_additional_quantity[s]

\* C7, as claimed: a symbol's failure does not abort the cycle.
C7_FailureIsolated == failures # {} => pc # "raised"

\* C8, as claimed: the open-interest wait ends within a budget of turns when
\* the data does not arrive.
C8_WaitEnds ==
    ~(/\ sel.pc = "oi_wait"
      /\ open_interest_is_missing(sel.live)
      /\ sel.waits = MaxWaits)

\* The steps of manage, in the order of lines 102-117
ManageOrder ==
    <<"filter_positions", "check_puts", "check_calls",
      "check_for_uncovered_positions", "portfolio", "check_if_can_write_puts",
      "set_result">>

\* C9: the steps of a cycle come in the order put rolls, call rolls,
\* covered-call writes, refresh, put allocation; every order is placed in
\* its own step, and the snapshot the allocation reads was fetched after
\* every roll order and covered-call order.
C9_OrderAndFreshSnapshot ==
    /\ steps = SubSeq(ManageOrder, 1, Len(steps))
    /\ \A i \in 1..Len(orders) :
          orders[i].after =
              CASE orders[i].step = "roll_puts" -> "check_puts"
                [] orders[i].step = "roll_calls" -> "check_calls"
                [] orders[i].step = "write_calls" -> "check_for_uncovered_positions"
                [] orders[i].step = "write_puts" -> "check_if_can_write_puts"
    /\ Len(steps) >= 6 =>
          snapshot_orders =
              Cardinality({i \in 1..Len(orders) : orders[i].step # "write_puts"})

\* The allocation has read the snapshot in a cycle that placed a roll order
\* and a covered-call order
C9_Witness ==
    /\ Len(steps) >= 6
    /\ \E i \in 1..Len(orders) : orders[i].step \in {"roll_puts", "roll_calls"}
    /\ \E i \in 1..Len(orders) : orders[i].step = "write_calls"

\* C10, as claimed: filter_positions returns the entries of the configured
\* symbols and leaves the caller's snapshot as it was.
C10_FilteredCopy ==
    steps = <<"filter_positions">> =>
        /\ pc = "check_puts"
        /\ portfolio_positions =
               SelectSeq(caller_original, LAMBDA e : e.symbol \in DOMAIN config.symbols)
        /\ caller_positions = caller_original
====
